---- MODULE Spec2Model ----
(***************************************************************************)
(* Teleport access-request / PagerDuty bridge (access/pagerduty).          *)
(*                                                                         *)
(* The model covers the event bridge of app.go: the webhook action handler *)
(* onPagerdutyAction (run concurrently, once per HTTP connection), the     *)
(* watcher callback onWatcherEvent with onPendingRequest and               *)
(* onDeletedRequest, and the bot's CreateIncident / ResolveIncident.       *)
(* Every outbound call (authorization backend, PagerDuty API) is one       *)
(* atomic step that may fail; the handlers interleave between calls.       *)
(*                                                                         *)
(* Strings that are split on "/" are modelled as sequences of tokens, a    *)
(* token being either the separator "/" or a chunk that holds no "/".      *)
(***************************************************************************)
EXTENDS Integers, Sequences, FiniteSets, TLC

\* ------------------------------------------------------------------------
\* Bounds
\* ------------------------------------------------------------------------

\* number of incidents the PagerDuty side hands out IDs for
MaxIncidents == 2

\* ------------------------------------------------------------------------
\* Program constants (bot.go)
\* ------------------------------------------------------------------------

pdIncidentKeyPrefix == <<"teleport-access-request">>
pdApproveAction == "approve"
pdDenyAction == "deny"

\* ------------------------------------------------------------------------
\* Input domains
\* ------------------------------------------------------------------------

\* request IDs known to the authorization backend; the handlers treat every
\* request alike and share nothing across requests but the incident IDs
ReqIds == {<<"R1">>}

\* webhook handlers that may run at the same time (one per HTTP connection)
Handlers == {"h1", "h2"}

Watcher == "watcher"

Procs == Handlers \cup {Watcher}

IncidentIds == 1..MaxIncidents

\* PagerdutyData{} : the zero value of the incident reference
NoIncident == 0

StatePending == "Pending"
StateApproved == "Approved"
StateDenied == "Denied"

\* states of a request that exists in the backend
LiveStates == {StatePending, StateApproved, StateDenied}

\* fmt.Sprintf("%s/%s", pdIncidentKeyPrefix, reqID)
IncidentKey(reqID) == pdIncidentKeyPrefix \o <<"/">> \o reqID

\* fmt.Sprintf("Access request has been %s", status)
NoteContent(status) == <<"Access request has been", status>>

\* strings.Split(s, sep) for a one-token separator
RECURSIVE Split(_, _)
Split(s, sep) ==
    IF \A i \in 1..Len(s) : s[i] # sep
    THEN <<s>>
    ELSE LET i == CHOOSE k \in 1..Len(s) :
                      s[k] = sep /\ \A j \in 1..(k - 1) : s[j] # sep
         IN <<SubSeq(s, 1, i - 1)>> \o Split(SubSeq(s, i + 1, Len(s)), sep)

\* incident keys that the handler must discard
NoiseKeys ==
    { <<"other-integration", "/", "R1">>,
      <<"teleport-access-request">>,
      <<"teleport-access-request", "/", "R1", "/", "x">>,
      <<>> }

ActionNames == {pdApproveAction, pdDenyAction, "escalate"}

\* WebhookAction values delivered by the listener
WebhookActions ==
    [ Event : {"incident.custom"},
      IncidentKey : {IncidentKey(r) : r \in ReqIds},
      IncidentID : IncidentIds,
      Name : ActionNames ]
    \cup
    [ Event : {"incident.trigger"},
      IncidentKey : {IncidentKey(<<"R1">>)},
      IncidentID : {1},
      Name : {pdApproveAction} ]
    \cup
    [ Event : {"incident.custom"},
      IncidentKey : NoiseKeys,
      IncidentID : {1},
      Name : {pdApproveAction} ]

OpPut == "put"
OpDelete == "delete"

VARIABLES
    reqState,     \* backend: lifecycle state of every request
    pluginData,   \* backend: Plugin Data incident reference per request
    incidents,    \* PagerDuty: created incidents, the ID is the index
    resolveCalls, \* ManageIncidents(status=resolved) calls issued per incident
    whMoved,      \* requests moved out of Pending by a webhook handler
    proc,         \* position and locals of every running handler
    ret,          \* value returned by the handler that finished in this step
    linked,       \* incidents that a Plugin Data record has referenced
    ext,          \* PagerDuty: extension schemas and extensions of the service
    setup,        \* Bot.Setup: position, locals and calls of the current run
    main,         \* App.run: position and locals of the main job
    jobs,         \* the listener job and the watcher job
    process,      \* utils.Process: cancellation and what App.Run returned
    trip,         \* incident key round trip: request ID, key, parsed ID
    retry         \* webhook actions the incident service will deliver again

\* the event bridge
bridgeVars ==
    <<reqState, pluginData, incidents, resolveCalls, whMoved, proc, ret, linked,
      retry>>

\* extension provisioning
setupVars == <<ext, setup>>

\* the service supervisor
runVars == <<main, jobs, process>>

\* everything the handlers of the event bridge leave alone
otherVars == <<ext, setup, main, jobs, process, trip, retry>>

vars == <<reqState, pluginData, incidents, resolveCalls, whMoved, proc, ret,
          linked, ext, setup, main, jobs, process, trip, retry>>

\* the parts of the program a specification leaves aside stay switched off
Off == [pc |-> "off"]

Idle == [pc |-> "idle"]

\* a new connection is served by the first handler slot that is free
FreeSlot ==
    IF proc["h1"] = Idle THEN "h1" ELSE IF proc["h2"] = Idle THEN "h2" ELSE "none"

NoRet == [kind |-> "none"]

\* locals of a handler that has just been entered
Entered(kind, input, reqID, pc) ==
    [ pc |-> pc, kind |-> kind, in |-> input, reqID |-> reqID,
      req |-> "", pdID |-> NoIncident, newState |-> "", resolution |-> "",
      log |-> <<>> ]

\* what a finished handler hands back to its caller
Returned(p, rec, result) ==
    [ kind |-> rec.kind, in |-> rec.in, reqID |-> rec.reqID,
      req |-> rec.req, pdID |-> rec.pdID, result |-> result, log |-> rec.log ]

\* handler p finishes with result; rec holds its locals and call log
Finish(p, rec, result) ==
    /\ proc' = [proc EXCEPT ![p] = Idle]
    /\ ret' = Returned(p, rec, result)

\* handler p goes on to its next call
Continue(p, rec) ==
    /\ proc' = [proc EXCEPT ![p] = rec]
    /\ ret' = NoRet

Logged(rec, call) == [rec EXCEPT !.log = Append(@, call)]

\* ------------------------------------------------------------------------
\* External collaborators: what a call can answer in the current state
\* ------------------------------------------------------------------------

\* access.Client.GetRequest
GetRequestOutcomes(reqID) ==
    {[err |-> "error", state |-> ""]} \cup
    IF reqID \in ReqIds /\ reqState[reqID] \in LiveStates
    THEN {[err |-> "nil", state |-> reqState[reqID]]}
    ELSE {[err |-> "NotFound", state |-> ""]}

\* access.Client.GetPluginData followed by DecodePluginData
GetPluginDataOutcomes(reqID) ==
    {[err |-> "error", ID |-> NoIncident]} \cup
    IF reqID \in ReqIds /\ pluginData[reqID] # NoIncident
    THEN {[err |-> "nil", ID |-> pluginData[reqID]]}
    ELSE {[err |-> "NotFound", ID |-> NoIncident]}

\* access.Client.SetRequestState
SetRequestStateOutcomes(reqID) ==
    {"error"} \cup
    IF reqID \in ReqIds /\ reqState[reqID] \in LiveStates THEN {"nil"} ELSE {}

\* access.Client.UpdatePluginData
UpdatePluginDataOutcomes(reqID) ==
    {"error"} \cup IF reqID \in ReqIds THEN {"nil"} ELSE {}

\* pd.Client.CreateIncident
CreateIncidentOutcomes ==
    {"error"} \cup IF Len(incidents) < MaxIncidents THEN {"nil"} ELSE {}

\* pd.Client.CreateIncidentNote, pd.Client.ManageIncidents
IncidentCallOutcomes(id) ==
    {"error"} \cup IF id \in 1..Len(incidents) THEN {"nil"} ELSE {}

\* ------------------------------------------------------------------------
\* Decisions taken by the code
\* ------------------------------------------------------------------------

\* app.go:186
EventIsRecognized(action) == action.Event = "incident.custom"

\* the part count left unchecked
KeyIsSupported_PrefixOnly(keyParts) == keyParts[1] = pdIncidentKeyPrefix

\* app.go:192
KeyIsSupported(keyParts) ==
    Len(keyParts) = 2 /\ keyParts[1] = pdIncidentKeyPrefix

\* not-found treated like any other GetRequest error
RequestLookup_NotFoundIsError(err) ==
    IF err = "nil" THEN "go on" ELSE "return err"

\* app.go:200-206, outcome of the GetRequest call of a webhook action
RequestLookup(err) ==
    CASE err = "nil" -> "go on"
      [] err = "NotFound" -> "return nil"
      [] OTHER -> "return err"

\* the Pending check left out
RequestIsPending_Skipped(state) == TRUE

\* app.go:207
RequestIsPending(state) == state = StatePending

\* the incident ID comparison left out
IncidentIDMatches_Skipped(pdID, action) == TRUE

\* app.go:218
IncidentIDMatches(pdID, action) == pdID = action.IncidentID

\* the two cases of the switch exchanged
ActionMapping_Swapped(name) ==
    CASE name = pdApproveAction ->
           [known |-> TRUE, reqState |-> StateDenied, resolution |-> "denied"]
      [] name = pdDenyAction ->
           [known |-> TRUE, reqState |-> StateApproved, resolution |-> "approved"]
      [] OTHER ->
           [known |-> FALSE, reqState |-> "", resolution |-> ""]

\* no default case: an unknown name falls through as an approval
ActionMapping_NoDefault(name) ==
    CASE name = pdDenyAction ->
           [known |-> TRUE, reqState |-> StateDenied, resolution |-> "denied"]
      [] OTHER ->
           [known |-> TRUE, reqState |-> StateApproved, resolution |-> "approved"]

\* app.go:228-237, the switch on action.Name
ActionMapping(name) ==
    CASE name = pdApproveAction ->
           [known |-> TRUE, reqState |-> StateApproved, resolution |-> "approved"]
      [] name = pdDenyAction ->
           [known |-> TRUE, reqState |-> StateDenied, resolution |-> "denied"]
      [] OTHER ->
           [known |-> FALSE, reqState |-> "", resolution |-> ""]

\* the reference of another incident stored
StoredIncident_OffByOne(pdDataID) == pdDataID + 1

\* the zero PagerdutyData stored instead of the created incident
StoredIncident_Zero(pdDataID) == NoIncident

\* app.go:265, PluginData{reqData, pdData} as stored for the request
StoredIncident(pdDataID) == pdDataID

\* a failed state change logged and the incident resolved all the same
StateChangeResult_ErrorIgnored(err) == "resolve"

\* app.go:239-241, outcome of the SetRequestState call of a webhook action
StateChangeResult(err) == IF err = "nil" THEN "resolve" ELSE "return err"

\* not-found treated like any other lookup error
DeletedLookup_NotFoundIsError(err) ==
    IF err = "nil" THEN "resolve" ELSE "return err"

\* app.go:273-279, outcome of the Plugin Data lookup of a delete event
DeletedLookup(err) ==
    CASE err = "NotFound" -> "return nil"
      [] err = "nil" -> "resolve"
      [] OTHER -> "return err"

\* ------------------------------------------------------------------------
\* Initial state: nothing requested, nothing created, every handler idle
\* ------------------------------------------------------------------------

Init ==
    /\ reqState = [r \in ReqIds |-> "Unborn"]
    /\ pluginData = [r \in ReqIds |-> NoIncident]
    /\ incidents = <<>>
    /\ resolveCalls = [i \in IncidentIds |-> [webhook |-> 0, watcher |-> 0]]
    /\ whMoved = {}
    /\ proc = [p \in Procs |-> Idle]
    /\ ret = NoRet
    /\ linked = {}
    /\ retry = {}
    /\ ext = Off /\ setup = Off
    /\ main = Off /\ jobs = Off /\ process = Off
    /\ trip = Off

\* the event bridge at rest, as the other specifications keep it
BridgeIdle ==
    /\ reqState = [r \in ReqIds |-> "Unborn"]
    /\ pluginData = [r \in ReqIds |-> NoIncident]
    /\ incidents = <<>>
    /\ resolveCalls = [i \in IncidentIds |-> [webhook |-> 0, watcher |-> 0]]
    /\ whMoved = {}
    /\ proc = [p \in Procs |-> Idle]
    /\ ret = NoRet
    /\ linked = {}
    /\ retry = {}

\* ------------------------------------------------------------------------
\* The authorization backend's own life: requests appear and expire
\* ------------------------------------------------------------------------

\* a user files request r; the backend stores it as Pending
SubmitRequest(r) ==
    /\ ret = NoRet
    /\ UNCHANGED <<linked, otherVars>>
    /\ reqState[r] = "Unborn"
    /\ reqState' = [reqState EXCEPT ![r] = StatePending]
    /\ ret' = NoRet
    /\ UNCHANGED <<pluginData, incidents, resolveCalls, whMoved, proc>>

\* the backend deletes request r (expiry); a delete event is now owed
ExpireRequest(r) ==
    /\ ret = NoRet
    /\ UNCHANGED <<linked, otherVars>>
    /\ reqState[r] \in LiveStates
    /\ reqState' = [reqState EXCEPT ![r] = "Deleted"]
    /\ ret' = NoRet
    /\ UNCHANGED <<pluginData, incidents, resolveCalls, whMoved, proc>>

\* ------------------------------------------------------------------------
\* App.onPagerdutyAction
\* ------------------------------------------------------------------------

\* app.go:180-197: entry, event-type filter, incident key parsing
onPagerdutyAction(h, action) ==
    /\ ret = NoRet
    /\ UNCHANGED <<linked, otherVars>>
    /\ proc[h] = Idle
    /\ h = FreeSlot
    /\ LET keyParts == Split(action.IncidentKey, "/")
           reqID == IF Len(keyParts) >= 2 THEN keyParts[2] ELSE <<>>
       IN IF ~EventIsRecognized(action)
          THEN Finish(h, Entered("webhook", action, <<>>, "parse"), "nil")
          ELSE IF ~KeyIsSupported(keyParts)
          THEN Finish(h, Entered("webhook", action, <<>>, "parse"), "nil")
          ELSE Continue(h, Entered("webhook", action, reqID, "GetRequest"))
    /\ UNCHANGED <<reqState, pluginData, incidents, resolveCalls, whMoved>>

\* app.go:198-209: fetch the request, not-found and Pending checks
onPagerdutyAction_GetRequest(h) ==
    /\ ret = NoRet
    /\ UNCHANGED <<linked, otherVars>>
    /\ proc[h].pc = "GetRequest"
    /\ proc[h].kind = "webhook"
    /\ \E out \in GetRequestOutcomes(proc[h].reqID) :
         LET rec == [Logged(proc[h], <<"GetRequest", proc[h].reqID, out.err>>)
                        EXCEPT !.req = out.state]
             next == RequestLookup(out.err)
         IN IF next = "return nil"
            THEN Finish(h, rec, "nil")
            ELSE IF next = "return err"
            THEN Finish(h, rec, "error: GetRequest")
            ELSE IF ~RequestIsPending(out.state)
            THEN Finish(h, rec, "error: cannot process not pending request")
            ELSE Continue(h, [rec EXCEPT !.pc = "GetPluginData"])
    /\ UNCHANGED <<reqState, pluginData, incidents, resolveCalls, whMoved>>

\* app.go:211-237: fetch Plugin Data, incident ID check, action name switch
onPagerdutyAction_GetPluginData(h) ==
    /\ ret = NoRet
    /\ UNCHANGED <<linked, otherVars>>
    /\ proc[h].pc = "GetPluginData"
    /\ proc[h].kind = "webhook"
    /\ \E out \in GetPluginDataOutcomes(proc[h].reqID) :
         LET rec == [Logged(proc[h], <<"GetPluginData", proc[h].reqID, out.err>>)
                        EXCEPT !.pdID = out.ID]
             map == ActionMapping(proc[h].in.Name)
         IN IF out.err # "nil"
            THEN Finish(h, rec, "error: GetPluginData")
            ELSE IF ~IncidentIDMatches(out.ID, proc[h].in)
            THEN Finish(h, rec,
                    "error: incident_id from request's plugin_data does not match")
            ELSE IF ~map.known
            THEN Finish(h, rec, "BadParameter: unknown action")
            ELSE Continue(h, [rec EXCEPT !.pc = "SetRequestState",
                                         !.newState = map.reqState,
                                         !.resolution = map.resolution])
    /\ UNCHANGED <<reqState, pluginData, incidents, resolveCalls, whMoved>>

\* app.go:239-242: ask the backend for the state transition
onPagerdutyAction_SetRequestState(h) ==
    /\ ret = NoRet
    /\ UNCHANGED <<linked, otherVars>>
    /\ proc[h].pc = "SetRequestState"
    /\ proc[h].kind = "webhook"
    /\ \E err \in SetRequestStateOutcomes(proc[h].reqID) :
         LET r == proc[h].reqID
             rec == Logged(proc[h], <<"SetRequestState", r, proc[h].newState, err>>)
         IN /\ IF StateChangeResult(err) = "return err"
               THEN Finish(h, rec, "error: SetRequestState")
               ELSE Continue(h, [rec EXCEPT !.pc = "CreateIncidentNote"])
            /\ reqState' = IF err = "nil"
                            THEN [reqState EXCEPT ![r] = proc[h].newState]
                            ELSE reqState
            /\ whMoved' = IF err = "nil" /\ reqState[r] = StatePending
                          THEN whMoved \cup {r} ELSE whMoved
    /\ UNCHANGED <<pluginData, incidents, resolveCalls>>

\* ------------------------------------------------------------------------
\* Bot.ResolveIncident, called from onPagerdutyAction (app.go:244) and from
\* onDeletedRequest (app.go:281)
\* ------------------------------------------------------------------------

Source(p) == IF p = Watcher THEN "watcher" ELSE "webhook"

\* app.go:523-534: the note call; its failure ends ResolveIncident and, with
\* it, the calling handler (app.go:244-246, app.go:281-283)
ResolveIncident_Note(p) ==
    /\ ret = NoRet
    /\ UNCHANGED <<linked, otherVars>>
    /\ proc[p].pc = "CreateIncidentNote"
    /\ \E err \in IncidentCallOutcomes(proc[p].pdID) :
         LET id == proc[p].pdID
             rec == Logged(proc[p], <<"CreateIncidentNote", id,
                                      NoteContent(proc[p].resolution), err>>)
         IN IF err # "nil"
            THEN Finish(p, rec, "error: CreateIncidentNote")
            ELSE Continue(p, [rec EXCEPT !.pc = "ManageIncidents"])
    /\ UNCHANGED <<reqState, pluginData, incidents, resolveCalls, whMoved>>

\* app.go:535-542: the resolve call; then the caller returns
\* (app.go:244-249, app.go:281-287)
ResolveIncident_Manage(p) ==
    /\ ret = NoRet
    /\ UNCHANGED <<linked, otherVars>>
    /\ proc[p].pc = "ManageIncidents"
    /\ \E err \in IncidentCallOutcomes(proc[p].pdID) :
         LET id == proc[p].pdID
             rec == Logged(proc[p], <<"ManageIncidents", id, "resolved", err>>)
         IN /\ resolveCalls' = [resolveCalls EXCEPT ![id][Source(p)] = @ + 1]
            /\ IF err # "nil"
               THEN /\ UNCHANGED incidents
                    /\ Finish(p, rec, "error: ManageIncidents")
               ELSE /\ incidents' = [incidents EXCEPT ![id].status = "resolved"]
                    /\ Finish(p, rec, "nil")
    /\ UNCHANGED <<reqState, pluginData, whMoved>>

\* ------------------------------------------------------------------------
\* App.onWatcherEvent; the watcher's delivery loop hands over one event at a
\* time and waits for the callback to return
\* ------------------------------------------------------------------------

\* events the watcher can deliver in the current backend state: a put event
\* carries the request as it was when the event was emitted (Pending when it
\* was filed, or its current state), a delete event only the ID, once
Events ==
    [Type : {OpPut}, ID : ReqIds, State : LiveStates]
    \cup [Type : {OpDelete}, ID : ReqIds, State : {""}]
    \cup [Type : {"init"}, ID : {<<>>}, State : {""}]

WatcherEvents ==
    { e \in Events :
        CASE e.Type = OpPut ->
               /\ reqState[e.ID] \in LiveStates
               /\ e.State \in {StatePending, reqState[e.ID]}
          [] e.Type = OpDelete -> reqState[e.ID] = "Deleted"
          [] OTHER -> TRUE }

\* app.go:151-178: dispatch on the event type
onWatcherEvent(event) ==
    /\ ret = NoRet
    /\ UNCHANGED <<linked, otherVars>>
    /\ proc[Watcher] = Idle
    /\ event \in WatcherEvents
    /\ CASE event.Type = OpPut ->
              /\ IF event.State # StatePending
                 THEN Finish(Watcher,
                             Entered(OpPut, event, event.ID, "dispatch"), "nil")
                 ELSE Continue(Watcher,
                             Entered(OpPut, event, event.ID, "CreateIncident"))
              /\ UNCHANGED reqState
         [] event.Type = OpDelete ->
              /\ Continue(Watcher,
                     [Entered(OpDelete, event, event.ID, "GetPluginData")
                         EXCEPT !.resolution = "expired"])
              /\ reqState' = [reqState EXCEPT ![event.ID] = "Gone"]
         [] OTHER ->
              /\ Finish(Watcher, Entered(event.Type, event, event.ID, "dispatch"),
                        "BadParameter: unexpected event operation")
              /\ UNCHANGED reqState
    /\ UNCHANGED <<pluginData, incidents, resolveCalls, whMoved>>

\* app.go:252-258 with bot.go CreateIncident (app.go:494-521)
onPendingRequest_CreateIncident ==
    /\ ret = NoRet
    /\ UNCHANGED <<linked, otherVars>>
    /\ proc[Watcher].pc = "CreateIncident"
    /\ \E err \in CreateIncidentOutcomes :
         LET r == proc[Watcher].reqID
             rec == Logged(proc[Watcher], <<"CreateIncident", IncidentKey(r), err>>)
             id == Len(incidents) + 1
         IN IF err # "nil"
            THEN /\ UNCHANGED incidents
                 /\ Finish(Watcher, rec, "error: CreateIncident")
            ELSE /\ incidents' = Append(incidents,
                        [key |-> IncidentKey(r), status |-> "triggered"])
                 /\ Continue(Watcher, [rec EXCEPT !.pc = "UpdatePluginData",
                                                  !.pdID = id])
    /\ UNCHANGED <<reqState, pluginData, resolveCalls, whMoved>>

\* app.go:265-267 with setPluginData (app.go:298-300)
onPendingRequest_setPluginData ==
    /\ ret = NoRet
    /\ UNCHANGED otherVars
    /\ proc[Watcher].pc = "UpdatePluginData"
    /\ \E err \in UpdatePluginDataOutcomes(proc[Watcher].reqID) :
         LET r == proc[Watcher].reqID
             data == StoredIncident(proc[Watcher].pdID)
             rec == Logged(proc[Watcher], <<"UpdatePluginData", r, data, err>>)
         IN IF err # "nil"
            THEN /\ UNCHANGED <<pluginData, linked>>
                 /\ Finish(Watcher, rec, "error: UpdatePluginData")
            ELSE /\ pluginData' = [pluginData EXCEPT ![r] = data]
                 /\ linked' = linked \cup ({data} \cap IncidentIds)
                 /\ Finish(Watcher, rec, "nil")
    /\ UNCHANGED <<reqState, incidents, resolveCalls, whMoved>>

\* app.go:270-279: Plugin Data lookup of a deleted request
onDeletedRequest_GetPluginData ==
    /\ ret = NoRet
    /\ UNCHANGED <<linked, otherVars>>
    /\ proc[Watcher].pc = "GetPluginData"
    /\ proc[Watcher].kind = OpDelete
    /\ \E out \in GetPluginDataOutcomes(proc[Watcher].reqID) :
         LET rec == [Logged(proc[Watcher],
                            <<"GetPluginData", proc[Watcher].reqID, out.err>>)
                        EXCEPT !.pdID = out.ID]
             next == DeletedLookup(out.err)
         IN CASE next = "return nil" -> Finish(Watcher, rec, "nil")
              [] next = "return err" -> Finish(Watcher, rec, "error: GetPluginData")
              [] OTHER -> Continue(Watcher, [rec EXCEPT !.pc = "CreateIncidentNote"])
    /\ UNCHANGED <<reqState, pluginData, incidents, resolveCalls, whMoved>>

\* ------------------------------------------------------------------------
\* Specification
\* ------------------------------------------------------------------------

\* the caller takes the value a handler returned (the listener turns it into
\* the HTTP status, the watcher loop logs it) before anything else happens
Respond ==
    /\ ret # NoRet
    /\ ret' = NoRet
    /\ UNCHANGED <<reqState, pluginData, incidents, resolveCalls, whMoved, proc>>
    /\ UNCHANGED <<linked, otherVars>>

Next ==
    \/ \E r \in ReqIds : SubmitRequest(r)
    \/ \E r \in ReqIds : ExpireRequest(r)
    \/ \E h \in Handlers, action \in WebhookActions : onPagerdutyAction(h, action)
    \/ \E h \in Handlers : onPagerdutyAction_GetRequest(h)
    \/ \E h \in Handlers : onPagerdutyAction_GetPluginData(h)
    \/ \E h \in Handlers : onPagerdutyAction_SetRequestState(h)
    \/ \E p \in Procs : ResolveIncident_Note(p)
    \/ \E p \in Procs : ResolveIncident_Manage(p)
    \/ \E event \in Events : onWatcherEvent(event)
    \/ onPendingRequest_CreateIncident
    \/ onPendingRequest_setPluginData
    \/ onDeletedRequest_GetPluginData
    \/ Respond

Spec == Init /\ [][Next]_vars

\* ------------------------------------------------------------------------
\* Properties
\* ------------------------------------------------------------------------

\* positions of the calls named name in a call log
Calls(log, name) == {k \in 1..Len(log) : log[k][1] = name}

\* the handler made no call that changes the request or the incident
NoSideEffectCalls(log) ==
    /\ Calls(log, "SetRequestState") = {}
    /\ Calls(log, "CreateIncidentNote") = {}
    /\ Calls(log, "ManageIncidents") = {}

\* the key has the shape "<prefix>/<id>" with no further "/"
WellFormedKey(key) ==
    /\ Len(key) >= 2
    /\ key[1] = "teleport-access-request"
    /\ key[2] = "/"
    /\ \A j \in 3..Len(key) : key[j] # "/"

\* C1: a webhook action whose request is fetched in a state other than
\* Pending returns an error, and its only call was that GetRequest: no
\* SetRequestState, no incident note, no incident resolve.
C1_NonPendingRejected ==
    (ret.kind = "webhook" /\ ret.req \in LiveStates \ {StatePending}) =>
        /\ ret.result # "nil"
        /\ ret.log = << <<"GetRequest", ret.reqID, "nil">> >>
        /\ NoSideEffectCalls(ret.log)

C1_Witness ==
    /\ ret.kind = "webhook"
    /\ ret.req = StateApproved
    /\ ret.in.Name = pdApproveAction
    /\ ret.result = "error: cannot process not pending request"

\* C6: a webhook callback with another event-type, or with an incident key
\* that is not "<prefix>/<id>", returns nil without making any call, and no
\* handler ever gets past the parsing with such a callback.
C6_NoiseIsNoOp ==
    /\ (ret.kind = "webhook" /\ (ret.in.Event # "incident.custom"
                                  \/ ~WellFormedKey(ret.in.IncidentKey))) =>
          (ret.result = "nil" /\ ret.log = <<>>)
    /\ \A h \in Handlers : proc[h] # Idle =>
          /\ proc[h].in.Event = "incident.custom"
          /\ WellFormedKey(proc[h].in.IncidentKey)

C6_Witness ==
    /\ ret.kind = "webhook"
    /\ ret.in.Event = "incident.custom"
    /\ ret.in.IncidentKey = <<"teleport-access-request", "/", "R1", "/", "x">>
    /\ ret.result = "nil"
    /\ ret.log = <<>>

\* C9: when the Plugin Data fetched for the Pending request holds an incident
\* ID other than the action's, the handler returns an error after the two
\* reads and makes no SetRequestState, note or resolve call; so every handler
\* that reaches SetRequestState carries the incident ID it read from the
\* request's Plugin Data, an incident created for that request.
C9_MismatchRejected ==
    /\ (ret.kind = "webhook" /\ ret.pdID # NoIncident
                             /\ ret.pdID # ret.in.IncidentID) =>
          /\ ret.result # "nil"
          /\ Len(ret.log) = 2
          /\ NoSideEffectCalls(ret.log)
    /\ (ret.kind = "webhook" /\ Calls(ret.log, "SetRequestState") # {}) =>
          ret.in.IncidentID = ret.pdID
    /\ \A h \in Handlers :
          proc[h] # Idle /\ proc[h].pc \in {"SetRequestState",
                                           "CreateIncidentNote",
                                           "ManageIncidents"} =>
             /\ proc[h].in.IncidentID = proc[h].pdID
             /\ proc[h].pdID \in 1..Len(incidents)
             /\ incidents[proc[h].pdID].key = proc[h].in.IncidentKey

C9_Witness ==
    /\ ret.kind = "webhook"
    /\ ret.req = StatePending
    /\ ret.pdID = 2
    /\ ret.in.IncidentID = 1
    /\ ret.result = "error: incident_id from request's plugin_data does not match"

\* C10: a delete event whose Plugin Data lookup reports not-found returns nil,
\* any other lookup error is returned as an error; in both cases the lookup
\* is the only call made.
C10_DeleteWithoutPluginData ==
    (ret.kind = OpDelete /\ ret.log[1][3] # "nil") =>
        /\ Len(ret.log) = 1
        /\ ret.log[1][1] = "GetPluginData"
        /\ (ret.log[1][3] = "NotFound" => ret.result = "nil")
        /\ (ret.log[1][3] # "NotFound" => ret.result # "nil")

C10_Witness ==
    /\ ret.kind = OpDelete
    /\ ret.log = << <<"GetPluginData", ret.reqID, "NotFound">> >>
    /\ ret.result = "nil"

\* a logged call without its outcome
CallOf(entry) == SubSeq(entry, 1, Len(entry) - 1)

\* every call of the log succeeded
AllSucceeded(log) == \A k \in 1..Len(log) : log[k][Len(log[k])] = "nil"

\* the request ID an incident key of the shape "<prefix>/<id>" carries
KeyRequest(key) == SubSeq(key, 3, Len(key))

\* the calls of an approve / deny action, in the order the scenario gives
ScenarioCalls(action) ==
    LET r == KeyRequest(action.IncidentKey)
        i == action.IncidentID
        state == IF action.Name = "approve" THEN "Approved" ELSE "Denied"
        text == IF action.Name = "approve" THEN "approved" ELSE "denied"
    IN << <<"GetRequest", r>>,
          <<"GetPluginData", r>>,
          <<"SetRequestState", r, state>>,
          <<"CreateIncidentNote", i, <<"Access request has been", text>> >>,
          <<"ManageIncidents", i, "resolved">> >>

FollowsScenario(action, log) ==
    /\ Len(log) <= 5
    /\ \A k \in 1..Len(log) : CallOf(log[k]) = ScenarioCalls(action)[k]

\* C5: an approve / deny action for a Pending request whose Plugin Data holds
\* the action's incident ID makes its calls in the order GetRequest,
\* GetPluginData, SetRequestState(R, Approved | Denied), note "approved" |
\* "denied" on incident I, resolve of incident I; when all of them succeed
\* the handler has made all five and returns nil.
C5_ApproveDenyOrder ==
    /\ \A h \in Handlers :
          (proc[h] # Idle /\ proc[h].in.Name \in {"approve", "deny"}) =>
              FollowsScenario(proc[h].in, proc[h].log)
    /\ (ret.kind = "webhook" /\ ret.in.Name \in {"approve", "deny"}) =>
          /\ FollowsScenario(ret.in, ret.log)
          /\ (ret.req = StatePending /\ ret.pdID = ret.in.IncidentID
                                     /\ AllSucceeded(ret.log)) =>
                (Len(ret.log) = 5 /\ ret.result = "nil")
          /\ (ret.result = "nil" /\ ret.req = StatePending) =>
                (Len(ret.log) = 5 /\ AllSucceeded(ret.log))

C5_Witness ==
    /\ ret.kind = "webhook"
    /\ ret.in.Name = "deny"
    /\ ret.in.IncidentID = 1
    /\ ret.result = "nil"
    /\ Len(ret.log) = 5
    /\ reqState[ret.reqID] = StateDenied
    /\ incidents[1].status = "resolved"

\* a recognized callback for a well-formed key with an unknown action name
UnknownNameAction(action) ==
    /\ action.Name \notin {"approve", "deny"}
    /\ action.Event = "incident.custom"
    /\ WellFormedKey(action.IncidentKey)

\* no call of the log failed for a reason other than not-found
NoCallBroke(log) ==
    \A k \in 1..Len(log) : log[k][Len(log[k])] \in {"nil", "NotFound"}

\* C7 as claimed: an unknown action name always ends in a bad-parameter
\* error, whatever the state of the request (Pending, not pending, not
\* found), and never in a SetRequestState or resolve call.
C7_AlwaysBadParameter ==
    (ret.kind = "webhook" /\ UnknownNameAction(ret.in)
                          /\ NoCallBroke(ret.log)) =>
        /\ ret.result = "BadParameter: unknown action"
        /\ NoSideEffectCalls(ret.log)

\* C7 amended: an unknown action name never leads to a SetRequestState, note
\* or resolve call; it ends in the bad-parameter error exactly when the
\* request was found Pending and its Plugin Data was read with the action's
\* incident ID, in nil when the request was not found, and in another error
\* otherwise.
C7_UnknownActionName ==
    /\ \A h \in Handlers :
          (proc[h] # Idle /\ UnknownNameAction(proc[h].in)) =>
              /\ proc[h].pc \in {"GetRequest", "GetPluginData"}
              /\ NoSideEffectCalls(proc[h].log)
    /\ (ret.kind = "webhook" /\ UnknownNameAction(ret.in)) =>
          /\ NoSideEffectCalls(ret.log)
          /\ (ret.result = "BadParameter: unknown action") <=>
                (/\ ret.req = StatePending
                 /\ Len(ret.log) = 2
                 /\ AllSucceeded(ret.log)
                 /\ ret.pdID = ret.in.IncidentID)
          /\ (ret.result = "nil") <=> (ret.log[1][3] = "NotFound")

C7_Witness ==
    /\ ret.kind = "webhook"
    /\ ret.in.Name = "escalate"
    /\ ret.req = StatePending
    /\ ret.pdID = ret.in.IncidentID
    /\ ret.result = "BadParameter: unknown action"

\* incidents created for request r
IncidentsOf(r) ==
    LET key == IncidentKey(r)
    IN {i \in 1..Len(incidents) : incidents[i].key = key}

\* C4 as claimed: at most one incident is ever created for a request ID,
\* however many Pending put events arrive for it.
C4_OneIncidentPerRequest ==
    \A r \in ReqIds : Cardinality(IncidentsOf(r)) <= 1

\* C4 amended: every Pending put event makes exactly one CreateIncident call,
\* and when onPendingRequest returns nil the Plugin Data of the request
\* references the incident that this call created, an incident carrying the
\* request's key; a non-pending put event makes no call.
C4_PluginDataReferencesIncident ==
    /\ (ret.kind = OpPut /\ ret.in.State # StatePending) =>
          (ret.result = "nil" /\ ret.log = <<>>)
    /\ (ret.kind = OpPut /\ ret.in.State = StatePending) =>
          /\ Calls(ret.log, "CreateIncident") = {1}
          /\ ret.result = "nil" =>
                /\ ret.pdID = Len(incidents)
                /\ ret.pdID \in IncidentsOf(ret.reqID)
                /\ pluginData[ret.reqID] = ret.pdID

C4_Witness ==
    /\ ret.kind = OpPut
    /\ ret.result = "nil"
    /\ ret.pdID = 2
    /\ pluginData[ret.reqID] = 2
    /\ Cardinality(IncidentsOf(ret.reqID)) = 2

\* number of resolve calls webhook handlers have issued for request r
RECURSIVE WebhookResolvesUpTo(_, _)
WebhookResolvesUpTo(r, n) ==
    IF n = 0 THEN 0
    ELSE WebhookResolvesUpTo(r, n - 1) +
         (IF n \in IncidentsOf(r) THEN resolveCalls[n].webhook ELSE 0)

WebhookResolves(r) == WebhookResolvesUpTo(r, Len(incidents))

\* C2 as claimed: under any deliveries of webhook actions, also duplicate and
\* concurrently handled ones, the handlers issue at most one resolve call for
\* a request, and exactly one has been issued when a handler that moved the
\* request out of Pending returns nil.
C2_ExactlyOneWebhookResolve ==
    /\ \A r \in ReqIds : WebhookResolves(r) <= 1
    /\ (ret.kind = "webhook" /\ ret.result = "nil"
                             /\ Calls(ret.log, "SetRequestState") # {}) =>
          WebhookResolves(ret.reqID) = 1

\* C3 as claimed: over webhook actions and the delete event of a request, an
\* incident receives at most one resolve call.
C3_ResolvedOnce ==
    \A i \in 1..Len(incidents) :
        resolveCalls[i].webhook + resolveCalls[i].watcher <= 1

\* C8 as claimed: a ResolveIncident whose note call failed still issues the
\* resolve call.
C8_ResolveAfterFailedNote ==
    ret.kind \in {"webhook", OpDelete} =>
        \A k \in Calls(ret.log, "CreateIncidentNote") :
            ret.log[k][4] # "nil" =>
                \E j \in Calls(ret.log, "ManageIncidents") : j > k

\* C11: a webhook action whose request the backend reports as not found
\* returns nil, a GetRequest failure of another kind is returned as an error;
\* in both cases GetRequest is the only call made.
C11_RequestNotFound ==
    (ret.kind = "webhook" /\ Len(ret.log) >= 1 /\ ret.log[1][3] # "nil") =>
        /\ ret.log[1][1] = "GetRequest"
        /\ Len(ret.log) = 1
        /\ (ret.log[1][3] = "NotFound" => ret.result = "nil")
        /\ (ret.log[1][3] # "NotFound" => ret.result # "nil")

C11_Witness ==
    /\ ret.kind = "webhook"
    /\ ret.in.Name = pdApproveAction
    /\ ret.log = << <<"GetRequest", ret.reqID, "NotFound">> >>
    /\ ret.result = "nil"
    /\ reqState[ret.reqID] \in {"Deleted", "Gone"}
    /\ pluginData[ret.reqID] = ret.in.IncidentID

\* C15 as claimed: once the watcher is between events, a request has a
\* Plugin Data record if and only if an incident has been created for it.
C15_PluginDataIffIncident ==
    proc[Watcher] = Idle =>
        \A r \in ReqIds : (pluginData[r] # NoIncident) <=> (IncidentsOf(r) # {})

\* C15 amended: a Plugin Data record references an incident that was created
\* for its request, and a request for which a record was once written still
\* has one (the bridge never deletes it); an incident may exist without a
\* record, namely when the write of the record failed.
C15_PluginDataOnlyWithIncident ==
    \A r \in ReqIds :
        /\ pluginData[r] # NoIncident =>
              /\ pluginData[r] \in IncidentsOf(r)
              /\ pluginData[r] \in linked
        /\ (linked \cap IncidentsOf(r) # {}) => pluginData[r] # NoIncident

C15_Witness ==
    /\ proc[Watcher] = Idle
    /\ ret = NoRet
    /\ Len(incidents) = 2
    /\ linked = {1}
    /\ pluginData[<<"R1">>] = 1

\* no webhook handler is at work on request r
NoHandlerFor(r) == \A h \in Handlers : proc[h] = Idle \/ proc[h].reqID # r

\* C18 as claimed: once the handlers of a request that a webhook action moved
\* out of Pending have finished, the incident its Plugin Data references is
\* resolved.
C18_NoDivergence ==
    \A r \in whMoved :
        NoHandlerFor(r) =>
            /\ pluginData[r] \in 1..Len(incidents)
            /\ incidents[pluginData[r]].status = "resolved"

\* incidents that exist and that no Plugin Data record has ever referenced
Orphans == (1..Len(incidents)) \ linked

\* C19: when the Plugin Data write fails after the incident was created,
\* onPendingRequest returns the error after those two calls; an incident
\* that no Plugin Data record ever referenced is never noted or resolved by
\* the bridge; a webhook action carrying its ID never changes the request
\* state and fails when the request is Pending; a delete event for a request
\* that has only such incidents returns nil after the lookup.
C19_OrphanNotHealed ==
    /\ (ret.kind = OpPut /\ ret.result = "error: UpdatePluginData") =>
          /\ Len(ret.log) = 2
          /\ ret.log[1][1] = "CreateIncident" /\ ret.log[1][3] = "nil"
          /\ ret.log[2][1] = "UpdatePluginData"
          /\ ret.pdID \in Orphans
    /\ \A i \in Orphans :
          /\ incidents[i].status = "triggered"
          /\ resolveCalls[i] = [webhook |-> 0, watcher |-> 0]
          /\ \A p \in Procs :
                (proc[p] # Idle /\ proc[p].pdID = i) =>
                    (p = Watcher /\ proc[p].pc = "UpdatePluginData")
    /\ (ret.kind = "webhook" /\ Len(ret.log) >= 1
                             /\ ret.in.IncidentID \in Orphans) =>
          /\ NoSideEffectCalls(ret.log)
          /\ ret.req = StatePending => ret.result # "nil"
    /\ (ret.kind = OpDelete /\ linked \cap IncidentsOf(ret.reqID) = {}
                            /\ ret.log[1][3] # "error") =>
          (ret.result = "nil" /\ Len(ret.log) = 1)

C19_Witness ==
    /\ ret.kind = "webhook"
    /\ ret.in.IncidentID = 1
    /\ Orphans = {1}
    /\ ret.req = StatePending
    /\ Len(ret.log) = 2
    /\ ret.log[2][3] = "NotFound"
    /\ ret.result = "error: GetPluginData"
    /\ reqState[ret.reqID] = StatePending

\* ------------------------------------------------------------------------
\* The incident key, from CreateIncident to the webhook handler
\* ------------------------------------------------------------------------

MaxIdLen == 3

\* pieces a request ID is made of; the backend's API takes any string
IdTokens == {"R1", "x", "/"}

RequestIDs == UNION { [1..n -> IdTokens] : n \in 1..MaxIdLen }

InitKey ==
    /\ BridgeIdle
    /\ ext = Off /\ setup = Off
    /\ main = Off /\ jobs = Off /\ process = Off
    /\ trip \in { [pc |-> "CreateIncident", reqID |-> id, key |-> <<>>,
                   accepted |-> FALSE, parsed |-> <<>>] : id \in RequestIDs }

\* app.go:504, the key embedded in the incident
CreateIncident_IncidentKey ==
    /\ trip.pc = "CreateIncident"
    /\ trip' = [trip EXCEPT !.pc = "onPagerdutyAction",
                            !.key = IncidentKey(trip.reqID)]
    /\ UNCHANGED <<bridgeVars, setupVars, runVars>>

\* app.go:191-198, the request ID recovered from the action's incident key
onPagerdutyAction_keyParts ==
    /\ trip.pc = "onPagerdutyAction"
    /\ LET keyParts == Split(trip.key, "/")
       IN trip' = [trip EXCEPT
                      !.pc = "done",
                      !.accepted = KeyIsSupported(keyParts),
                      !.parsed = IF KeyIsSupported(keyParts)
                                 THEN keyParts[2] ELSE <<>>]
    /\ UNCHANGED <<bridgeVars, setupVars, runVars>>

NextKey ==
    \/ CreateIncident_IncidentKey
    \/ onPagerdutyAction_keyParts

SpecKey == InitKey /\ [][NextKey]_vars

\* C20: the key built for a request ID is accepted by the handler's key
\* check and the ID parsed out of it is the original request ID.
C20_KeyRoundTrip ==
    trip.pc = "done" => (trip.accepted /\ trip.parsed = trip.reqID)

\* ------------------------------------------------------------------------
\* Extension provisioning: Bot.Setup run again and again on one service
\* ------------------------------------------------------------------------

MaxRuns == 3

pdListLimit == 60
pdApproveActionLabel == "Approve Request"
pdDenyActionLabel == "Deny Request"

\* schema.Key of the extension type the actions are built on
CustomWebhookKey == "custom_webhook"

\* the empty string of an ID variable; IDs are positions in the listing
NoID == 0

\* n entries that the search does not look for
Others(n) == [i \in 1..n |-> "other"]

\* lengths that put the next entry before, at and behind a page end
Paddings == {0, pdListLimit - 1, pdListLimit}

\* extension schemas of the account: the custom webhook type on the first
\* page, on the second page, or missing
SchemaListings ==
    { <<"other", CustomWebhookKey>>,
      Others(pdListLimit) \o <<CustomWebhookKey, "other">>,
      <<"other">> }

\* extensions of the service before the first run: either label absent or
\* present once, in either order, anywhere on the pages
ExtensionListings ==
    { l \in { Others(a) \o first \o Others(b) \o second \o Others(c) :
                a \in Paddings, b \in Paddings, c \in Paddings,
                first \in {<<>>, <<pdApproveActionLabel>>,
                           <<pdDenyActionLabel>>},
                second \in {<<>>, <<pdApproveActionLabel>>,
                            <<pdDenyActionLabel>>} } :
        \A x \in {pdApproveActionLabel, pdDenyActionLabel} :
            Cardinality({ i \in 1..Len(l) : l[i] = x }) <= 1 }

\* positions of one page: APIListObject{Offset, Limit} against a listing
Page(list, offset) ==
    { i \in 1..Len(list) : offset < i /\ i <= offset + pdListLimit }

\* the More flag of a page response
More(list, offset) == offset + pdListLimit < Len(list)

\* the range loop over a page: the last entry that matches wins, and the
\* variable keeps its value when none does
Found(list, offset, name, id) ==
    LET hits == { i \in Page(list, offset) : list[i] = name }
    IN IF hits = {} THEN id
       ELSE CHOOSE i \in hits : \A j \in hits : j <= i

\* the ID of the extension that carries the label, NoID when there is none
Existing(label) ==
    LET hits == { i \in 1..Len(ext.extensions) : ext.extensions[i] = label }
    IN IF hits = {} THEN NoID ELSE CHOOSE i \in hits : TRUE

SetupIdle(runs, result, log) ==
    [pc |-> "idle", offset |-> 0, more |-> TRUE, webhookSchemaID |-> NoID,
     approveExtID |-> NoID, denyExtID |-> NoID,
     runs |-> runs, result |-> result, log |-> log]

InitSetup ==
    /\ BridgeIdle
    /\ main = Off /\ jobs = Off /\ process = Off
    /\ trip = Off
    /\ ext \in [schemas : SchemaListings, extensions : ExtensionListings]
    /\ setup = SetupIdle(0, "none", <<>>)

\* outcome of a call to the incident service
ExtensionCallOutcomes == {"nil", "error"}

\* app.go:409, the search stops at the first page that holds the schema
SchemaLoopContinues(webhookSchemaID, more) == webhookSchemaID = NoID /\ more

\* only the first page of extensions looked at
ExtensionLoopContinues_FirstPageOnly(approveExtID, denyExtID, more) == FALSE

\* app.go:434
ExtensionLoopContinues(approveExtID, denyExtID, more) ==
    (approveExtID = NoID \/ denyExtID = NoID) /\ more

\* app.go:486-491
CustomActionCall(extensionID) ==
    IF extensionID = NoID THEN "CreateExtension" ELSE "UpdateExtension"

SetupReturn(result, log) ==
    setup' = SetupIdle(setup.runs + 1, result, log)

\* app.go:402-407, one more run against the service as the last run left it
Setup ==
    /\ setup.pc = "idle"
    /\ setup.runs < MaxRuns
    /\ setup' = [setup EXCEPT !.pc = "ListExtensionSchemas",
                              !.result = "none", !.log = <<>>]
    /\ UNCHANGED <<ext, bridgeVars, runVars, trip>>

\* app.go:409-431, one page of extension schemas
Setup_ListExtensionSchemas ==
    /\ setup.pc = "ListExtensionSchemas"
    /\ \E err \in ExtensionCallOutcomes :
          LET log == Append(setup.log,
                            <<"ListExtensionSchemas", setup.offset, err>>)
              id == Found(ext.schemas, setup.offset, CustomWebhookKey,
                          setup.webhookSchemaID)
              more == More(ext.schemas, setup.offset)
          IN IF err # "nil"
             THEN SetupReturn("error: ListExtensionSchemas", log)
             ELSE IF SchemaLoopContinues(id, more)
             THEN setup' = [setup EXCEPT !.webhookSchemaID = id,
                                         !.more = more,
                                         !.offset = @ + pdListLimit,
                                         !.log = log]
             ELSE IF id = NoID
             THEN SetupReturn("error: NotFound", log)
             ELSE setup' = [setup EXCEPT !.pc = "ListExtensions",
                                         !.webhookSchemaID = id,
                                         !.offset = 0, !.more = TRUE,
                                         !.log = log]
    /\ UNCHANGED <<ext, bridgeVars, runVars, trip>>

\* app.go:433-458, one page of the service's extensions
Setup_ListExtensions ==
    /\ setup.pc = "ListExtensions"
    /\ \E err \in ExtensionCallOutcomes :
          LET log == Append(setup.log, <<"ListExtensions", setup.offset, err>>)
              approveExtID == Found(ext.extensions, setup.offset,
                                    pdApproveActionLabel, setup.approveExtID)
              denyExtID == Found(ext.extensions, setup.offset,
                                 pdDenyActionLabel, setup.denyExtID)
              more == More(ext.extensions, setup.offset)
          IN IF err # "nil"
             THEN SetupReturn("error: ListExtensions", log)
             ELSE setup' = [setup EXCEPT
                     !.pc = IF ExtensionLoopContinues(approveExtID,
                                                      denyExtID, more)
                            THEN "ListExtensions" ELSE "setupApprove",
                     !.approveExtID = approveExtID,
                     !.denyExtID = denyExtID,
                     !.more = more,
                     !.offset = @ + pdListLimit,
                     !.log = log]
    /\ UNCHANGED <<ext, bridgeVars, runVars, trip>>

\* app.go:460-467 and 470-492, the extension of one action created or updated
setupCustomAction(actionName) ==
    /\ setup.pc = IF actionName = pdApproveAction
                  THEN "setupApprove" ELSE "setupDeny"
    /\ LET extensionID == IF actionName = pdApproveAction
                          THEN setup.approveExtID ELSE setup.denyExtID
           actionLabel == IF actionName = pdApproveAction
                          THEN pdApproveActionLabel ELSE pdDenyActionLabel
           call == CustomActionCall(extensionID)
       IN \E err \in ExtensionCallOutcomes :
            LET log == Append(setup.log,
                              <<call, extensionID, actionLabel,
                                Existing(actionLabel), err>>)
            IN /\ ext' = IF err # "nil" THEN ext
                         ELSE IF call = "CreateExtension"
                         THEN [ext EXCEPT !.extensions = Append(@, actionLabel)]
                         ELSE [ext EXCEPT !.extensions[extensionID] =
                                              actionLabel]
               /\ IF err # "nil"
                  THEN SetupReturn("error: " \o call, log)
                  ELSE IF actionName = pdApproveAction
                  THEN setup' = [setup EXCEPT !.pc = "setupDeny", !.log = log]
                  ELSE SetupReturn("nil", log)
    /\ UNCHANGED <<bridgeVars, runVars, trip>>

NextSetup ==
    \/ Setup
    \/ Setup_ListExtensionSchemas
    \/ Setup_ListExtensions
    \/ \E actionName \in {pdApproveAction, pdDenyAction} :
          setupCustomAction(actionName)

SpecSetup == InitSetup /\ [][NextSetup]_vars

\* the extensions of the service that carry the label
ExtensionsWith(label) ==
    { i \in 1..Len(ext.extensions) : ext.extensions[i] = label }

\* C12: however often Bot.Setup runs, the service never has more than one
\* extension per action label, it has exactly one of each after a run that
\* returned nil, and a run never creates an extension whose label exists:
\* it updates the existing one by its ID.
C12_SetupIdempotent ==
    setup.pc # "off" =>
        /\ \A label \in {pdApproveActionLabel, pdDenyActionLabel} :
              /\ Cardinality(ExtensionsWith(label)) <= 1
              /\ (setup.pc = "idle" /\ setup.result = "nil") =>
                    Cardinality(ExtensionsWith(label)) = 1
        /\ \A k \in 1..Len(setup.log) :
              /\ setup.log[k][1] = "CreateExtension" =>
                    setup.log[k][4] = NoID
              /\ setup.log[k][1] = "UpdateExtension" =>
                    (setup.log[k][2] = setup.log[k][4]
                        /\ setup.log[k][4] # NoID)

C12_Witness ==
    /\ setup.pc = "idle"
    /\ setup.runs = MaxRuns
    /\ setup.result = "nil"
    /\ Len(setup.log) >= 2
    /\ \E k \in 1..Len(setup.log) :
          /\ setup.log[k][1] = "UpdateExtension"
          /\ setup.log[k][3] = pdApproveActionLabel
          /\ setup.log[k][2] > pdListLimit + pdListLimit
    /\ setup.log[Len(setup.log)][1] = "UpdateExtension"

\* ------------------------------------------------------------------------
\* The service: App.Run, the main job and the two jobs it supervises
\* ------------------------------------------------------------------------

JobNames == {"http", "watcher"}

\* the statements of App.run in the order they execute
StartupSteps_ListenerFirst ==
    <<"NewWebhookServer", "LoadTLSConfig", "NewClient",
      "checkTeleportVersion", "SpawnHTTP", "WaitReadyHTTP", "HealthCheck",
      "EnsureCert", "Setup", "SpawnWatcher", "WaitReadyWatcher",
      "SetReady", "DoneHTTP", "DoneWatcher", "NewAggregate">>

\* app.go:59-131
StartupSteps ==
    <<"NewWebhookServer", "LoadTLSConfig", "NewClient",
      "checkTeleportVersion", "HealthCheck", "EnsureCert", "SpawnHTTP",
      "WaitReadyHTTP", "Setup", "SpawnWatcher", "WaitReadyWatcher",
      "SetReady", "DoneHTTP", "DoneWatcher", "NewAggregate">>

StepIndex(step) == CHOOSE i \in 1..Len(StartupSteps) : StartupSteps[i] = step

\* the statement that follows a statement that did not return
StepAfter(step) == StartupSteps[StepIndex(step) + 1]

\* the statements that are one call returning an error
CallSteps ==
    {"NewWebhookServer", "LoadTLSConfig", "NewClient", "checkTeleportVersion",
     "HealthCheck", "EnsureCert", "Setup"}

\* the job a statement spawns, waits for, or reads
JobOf(step) ==
    IF step \in {"SpawnHTTP", "WaitReadyHTTP", "DoneHTTP"}
    THEN "http" ELSE "watcher"

\* what a call can return
CallOutcomes(step) ==
    IF step = "LoadTLSConfig"
    THEN {"nil", "ErrInvalidCertificate", "error"}
    ELSE {"nil", "error"}

\* the error of a failed extension setup logged and startup carried on
StepResult_SetupErrorLogged(step, err) ==
    IF err = "nil" \/ step = "Setup"
          \/ (step = "LoadTLSConfig" /\ err = "ErrInvalidCertificate")
    THEN "go on" ELSE "return"

\* app.go:60-62, 71-75, 83-88, 91-94, 98-100, 104-106, 109-112, 122-124
StepResult(step, err) ==
    IF err = "nil" \/ (step = "LoadTLSConfig" /\ err = "ErrInvalidCertificate")
    THEN "go on" ELSE "return"

\* ready as soon as one of the two jobs is
ReadyValue_Either(httpOk, watcherOk) == httpOk \/ watcherOk

\* app.go:126
ReadyValue(httpOk, watcherOk) == httpOk /\ watcherOk

\* trace.NewAggregate: the non-nil errors of its arguments, combined
NewAggregate(errs) == UNION errs

\* the error value of a failed statement or job
ErrorOf(name) == {"error: " \o name}

Canceled == {"context canceled"}

Unspawned == [state |-> "unspawned", ready |-> "none", err |-> {},
              served |-> FALSE]

InitRun ==
    /\ BridgeIdle
    /\ ext = Off /\ setup = Off
    /\ trip = Off
    /\ main = [pc |-> "new", httpOk |-> FALSE, watcherOk |-> FALSE,
               ready |-> "none", signals |-> 0, err |-> {},
               failedAt |-> "none", ran |-> {}]
    /\ jobs = [j \in JobNames |-> Unspawned]
    /\ process = [canceled |-> FALSE, returned |-> FALSE, err |-> {}]

\* the main job returns err; a non-nil error of a critical job cancels the
\* process
MainReturns(step, err, failed) ==
    /\ main' = [main EXCEPT !.pc = "returned", !.err = err,
                            !.ran = @ \cup {step},
                            !.failedAt = IF failed THEN step ELSE @]
    /\ process' = [process EXCEPT !.canceled = @ \/ err # {}]

MainGoesOn(step, changes) ==
    /\ main' = [changes EXCEPT !.pc = StepAfter(step), !.ran = @ \cup {step}]
    /\ UNCHANGED process

\* a statement's error: StepResult decides between the bare return and the
\* next statement
AfterStep(step, err, value, changes) ==
    IF StepResult(step, IF err = {} THEN "nil" ELSE value) = "return"
    THEN MainReturns(step, err, TRUE)
    ELSE MainGoesOn(step, [changes EXCEPT
                              !.failedAt = IF value = "error" THEN step ELSE @])

\* app.go:36-39, utils.NewProcess and the main job spawned
Run ==
    /\ main.pc = "new"
    /\ main' = [main EXCEPT !.pc = StartupSteps[1]]
    /\ UNCHANGED <<jobs, process, bridgeVars, setupVars, trip>>

\* app.go:59-100 and 109-112, a statement that is one call
run_Call ==
    /\ main.pc \in CallSteps
    /\ \E value \in CallOutcomes(main.pc) :
          AfterStep(main.pc,
                    IF value = "nil" THEN {} ELSE ErrorOf(main.pc),
                    value, main)
    /\ UNCHANGED <<jobs, bridgeVars, setupVars, trip>>

\* app.go:101-102 and 115-120
run_SpawnCriticalJob ==
    /\ main.pc \in {"SpawnHTTP", "SpawnWatcher"}
    /\ jobs' = [jobs EXCEPT ![JobOf(main.pc)].state = "starting"]
    /\ MainGoesOn(main.pc, main)
    /\ UNCHANGED <<bridgeVars, setupVars, trip>>

\* app.go:103-106 and 121-124: the job's signal, or the cancellation
run_WaitReady ==
    /\ main.pc \in {"WaitReadyHTTP", "WaitReadyWatcher"}
    /\ LET job == jobs[JobOf(main.pc)]
       IN \/ /\ job.ready # "none"
             /\ AfterStep(main.pc, {}, "nil",
                          IF main.pc = "WaitReadyHTTP"
                          THEN [main EXCEPT !.httpOk = (job.ready = "true")]
                          ELSE [main EXCEPT !.watcherOk = (job.ready = "true")])
          \/ /\ process.canceled
             /\ AfterStep(main.pc, Canceled, "error", main)
    /\ UNCHANGED <<jobs, bridgeVars, setupVars, trip>>

\* app.go:126
run_SetReady ==
    /\ main.pc = "SetReady"
    /\ MainGoesOn(main.pc,
                  [main EXCEPT
                      !.ready = IF ReadyValue(main.httpOk, main.watcherOk)
                                THEN "true" ELSE "false",
                      !.signals = @ + 1])
    /\ UNCHANGED <<jobs, bridgeVars, setupVars, trip>>

\* app.go:128-129
run_Done ==
    /\ main.pc \in {"DoneHTTP", "DoneWatcher"}
    /\ jobs[JobOf(main.pc)].state = "stopped"
    /\ MainGoesOn(main.pc, main)
    /\ UNCHANGED <<jobs, bridgeVars, setupVars, trip>>

\* app.go:131
run_NewAggregate ==
    /\ main.pc = "NewAggregate"
    /\ MainReturns(main.pc, NewAggregate({jobs[j].err : j \in JobNames}),
                   FALSE)
    /\ UNCHANGED <<jobs, bridgeVars, setupVars, trip>>

\* a job reports that it started, well or not
Job_SetReady(j) ==
    /\ jobs[j].state = "starting"
    /\ \E ok \in {"true", "false"} :
          jobs' = [jobs EXCEPT ![j].state = "running", ![j].ready = ok]
    /\ UNCHANGED <<main, process, bridgeVars, setupVars, trip>>

\* a job ends with an error, which cancels the process
Job_Fail(j) ==
    /\ jobs[j].state \in {"starting", "running"}
    /\ jobs' = [jobs EXCEPT ![j].state = "stopped", ![j].err = ErrorOf(j)]
    /\ process' = [process EXCEPT !.canceled = TRUE]
    /\ UNCHANGED <<main, bridgeVars, setupVars, trip>>

\* a job of a canceled process stops
Job_Stop(j) ==
    /\ process.canceled
    /\ jobs[j].state \in {"starting", "running"}
    /\ jobs' = [jobs EXCEPT ![j].state = "stopped"]
    /\ UNCHANGED <<main, process, bridgeVars, setupVars, trip>>

\* the listener, once serving, hands a webhook action to the handler
Listener_Serve ==
    /\ jobs["http"].state = "running"
    /\ jobs["http"].ready = "true"
    /\ ~jobs["http"].served
    /\ jobs' = [jobs EXCEPT !["http"].served = TRUE]
    /\ UNCHANGED <<main, process, bridgeVars, setupVars, trip>>

\* the context given to App.Run is canceled
Cancel ==
    /\ main.pc # "new"
    /\ ~process.canceled
    /\ process' = [process EXCEPT !.canceled = TRUE]
    /\ UNCHANGED <<main, jobs, bridgeVars, setupVars, trip>>

\* app.go:40-41, Process.Done is closed and App.Run returns mainJob.Err()
Run_Done ==
    /\ process.canceled
    /\ ~process.returned
    /\ main.pc = "returned"
    /\ \A j \in JobNames : jobs[j].state \in {"unspawned", "stopped"}
    /\ process' = [process EXCEPT !.returned = TRUE, !.err = main.err]
    /\ UNCHANGED <<main, jobs, bridgeVars, setupVars, trip>>

NextRun ==
    \/ Run
    \/ run_Call
    \/ run_SpawnCriticalJob
    \/ run_WaitReady
    \/ run_SetReady
    \/ run_Done
    \/ run_NewAggregate
    \/ \E j \in JobNames : Job_SetReady(j)
    \/ \E j \in JobNames : Job_Fail(j)
    \/ \E j \in JobNames : Job_Stop(j)
    \/ Listener_Serve
    \/ Cancel
    \/ Run_Done

SpecRun == InitRun /\ [][NextRun]_vars

\* a canceled job stops and a process whose jobs stopped lets App.Run return
SpecRunFair ==
    /\ SpecRun
    /\ \A j \in JobNames : WF_vars(Job_Stop(j))
    /\ WF_vars(Run_Done)

\* C13: the main job signals ready at most once, only after both the
\* listener job and the watcher job have reported, and signals true only if
\* both reported true.
C13_ReadyAfterBothJobs ==
    main.pc # "off" =>
        /\ main.signals <= 1
        /\ main.ready # "none" => \A j \in JobNames : jobs[j].ready # "none"
        /\ main.ready = "true" => \A j \in JobNames : jobs[j].ready = "true"

C13_Witness ==
    /\ main.pc # "off"
    /\ main.ready = "false"
    /\ main.signals = 1
    /\ jobs["http"].ready = "true"
    /\ jobs["watcher"].ready = "false"

\* C14 as claimed: the error App.Run returns contains the terminal error of
\* every job that ended with one.
C14_AggregatedError ==
    (main.pc # "off" /\ process.returned) =>
        \A j \in JobNames : jobs[j].err \subseteq process.err

\* the statements that ran and did not fail
Succeeded == main.ran \ {main.failedAt}

\* once a startup statement has failed: the main job has returned a non-nil
\* error, no later statement ran, ready was not signalled
FailFast ==
    (main.pc # "off" /\ main.failedAt # "none") =>
        /\ main.pc = "returned"
        /\ main.err # {}
        /\ main.ready = "none" /\ main.signals = 0
        /\ \A step \in main.ran : StepIndex(step) <= StepIndex(main.failedAt)
        /\ main.failedAt = "Setup" => jobs["watcher"].state = "unspawned"

\* C16: a failed startup statement makes the main job return its error at
\* once, with no later statement run and ready never signalled, and App.Run
\* eventually returns a non-nil error.
C16_FailFast ==
    /\ []FailFast
    /\ (main.pc # "off" /\ main.failedAt # "none")
          ~> (main.pc # "off" /\ process.returned /\ process.err # {})

C16_Witness ==
    /\ main.pc = "returned"
    /\ main.failedAt = "Setup"
    /\ jobs["http"].state = "stopped"
    /\ jobs["watcher"].state = "unspawned"
    /\ process.returned
    /\ process.err = ErrorOf("Setup")

\* C17: the listener job is spawned, and serves a webhook action, only after
\* the health check and the certificate provisioning have succeeded; when
\* either fails the listener is never spawned and serves nothing.
C17_ListenerAfterChecks ==
    main.pc # "off" =>
        /\ jobs["http"].state # "unspawned" =>
              {"HealthCheck", "EnsureCert"} \subseteq Succeeded
        /\ jobs["http"].served =>
              {"HealthCheck", "EnsureCert"} \subseteq Succeeded
        /\ main.failedAt \in {"HealthCheck", "EnsureCert"} =>
              (jobs["http"].state = "unspawned" /\ ~jobs["http"].served)

C17_Witness ==
    /\ main.pc = "Setup"
    /\ jobs["http"].served
    /\ {"HealthCheck", "EnsureCert"} \subseteq main.ran

\* ------------------------------------------------------------------------
\* Redelivery: the incident service sends a failed webhook action again
\* ------------------------------------------------------------------------

\* the listener answers an action whose SetRequestState call failed with an
\* error status, and the incident service keeps that action to send it again
Respond_Retry ==
    /\ ret.kind = "webhook"
    /\ ret.result = "error: SetRequestState"
    /\ retry = {}
    /\ retry' = {ret.in}
    /\ ret' = NoRet
    /\ UNCHANGED <<reqState, pluginData, incidents, resolveCalls, whMoved,
                   proc, linked>>
    /\ UNCHANGED <<ext, setup, main, jobs, process, trip>>

NextRedeliver ==
    \/ Next
    \/ Respond_Retry

SpecRedeliver == Init /\ [][NextRedeliver]_vars

\* a webhook handler returns in this step because SetRequestState failed
SetRequestStateFailed ==
    /\ ret = NoRet
    /\ ret'.kind = "webhook"
    /\ Calls(ret'.log, "SetRequestState") # {}
    /\ \E k \in Calls(ret'.log, "SetRequestState") : ret'.log[k][4] # "nil"

\* C21: a handler whose SetRequestState call fails returns that error with
\* no incident note and no resolve call made, and the failing step leaves
\* the request state, the Plugin Data and the incidents as they were.
C21_FailedStateChange ==
    /\ [](ret.kind = "webhook" =>
            \A k \in Calls(ret.log, "SetRequestState") :
                ret.log[k][4] # "nil" =>
                    /\ ret.result = "error: SetRequestState"
                    /\ k = Len(ret.log)
                    /\ Calls(ret.log, "CreateIncidentNote") = {}
                    /\ Calls(ret.log, "ManageIncidents") = {})
    /\ [][SetRequestStateFailed =>
             UNCHANGED <<reqState, pluginData, incidents, resolveCalls,
                         whMoved>>]_vars

\* the action that failed on SetRequestState, delivered again, has approved
\* the request and resolved the incident
C21_Witness ==
    /\ ret.kind = "webhook"
    /\ ret.in \in retry
    /\ ret.in.Name = pdApproveAction
    /\ ret.result = "nil"
    /\ Len(ret.log) = 5
    /\ AllSucceeded(ret.log)
    /\ reqState[ret.reqID] = StateApproved
    /\ incidents[ret.in.IncidentID].status = "resolved"

====
